---------------------------- MODULE Spec2Model ----------------------------
(***************************************************************************)
(* The projector of patient-storage-poc                                    *)
(* (src/patient_events/lambdas/projector.py): a handler that turns a batch *)
(* of DynamoDB stream records into index records, deduplicates them and    *)
(* writes them to two read-model tables.                                   *)
(*                                                                         *)
(* Python values are modelled as tagged records [t |-> type, v |-> value]: *)
(* str, dec (Decimal, kept as its digit string), bool, none, list (a       *)
(* sequence) and dict (a function from key strings to values).  An         *)
(* exception is the value [t |-> "raise", v |-> exception name].           *)
(***************************************************************************)
EXTENDS Integers, Sequences, FiniteSets, TLC

VARIABLES
    current_state_table,           \* PatientCurrentState: (PK, SK) -> item
    attribute_last_updated_table,  \* PatientAttributeLastUpdated: (PK, SK) -> item
    inv,                           \* the handler invocations: where each
                                   \* stands (pc), its batch, the items it
                                   \* has still to write (cs, al), and
                                   \* ghosts: the writes it has made and
                                   \* whether it overlapped another one
    started                        \* ghost: invocation ids in the order they started

vars == <<current_state_table, attribute_last_updated_table, inv, started>>

---------------------------------------------------------------------------
(* Bounds *)

MaxBatch == 2        \* longest stream batch of a single invocation
MaxConcBatch == 1    \* longest stream batch when two invocations run

---------------------------------------------------------------------------
(* Python values *)

PyStr(s) == [t |-> "str", v |-> s]
PyDec(s) == [t |-> "dec", v |-> s]
PyBool(b) == [t |-> "bool", v |-> b]
PyNone == [t |-> "none"]
PyList(q) == [t |-> "list", v |-> q]
PyDict(f) == [t |-> "dict", v |-> f]
PyRaise(e) == [t |-> "raise", v |-> e]

\* The digit strings Decimal() accepts, among the strings of the inputs.
NumericStrings == {"0", "1", "2", "1.10"}

\* Decimal(x), projector.py line 184: exact for a numeric string, an
\* exception for any other string or for None.
Decimal(x) ==
    IF x.t = "str"
    THEN IF x.v \in NumericStrings THEN PyDec(x.v)
         ELSE PyRaise("InvalidOperation")
    ELSE IF x.t = "dec" THEN x
    ELSE IF x.t = "bool" THEN PyDec(IF x.v THEN "1" ELSE "0")
    ELSE PyRaise("TypeError")

\* Iteration order of a mapping: Python keeps the order of the keys in the
\* wire image; the enumerated inputs list their keys in this order.
KeyOrder == <<"email", "phone", "value", "S", "N", "M", "L", "k">>

RECURSIVE KeysFrom(_, _)
KeysFrom(f, i) ==
    IF i > Len(KeyOrder) THEN <<>>
    ELSE (IF KeyOrder[i] \in DOMAIN f THEN <<KeyOrder[i]>> ELSE <<>>)
         \o KeysFrom(f, i + 1)

\* The keys of dict d in iteration order (d.items()).
Keys(d) == KeysFrom(d.v, 1)

\* f"{x}" of a value.
Format(x) ==
    IF x.t \in {"str", "dec"} THEN x.v
    ELSE IF x.t = "bool" THEN (IF x.v THEN "True" ELSE "False")
    ELSE IF x.t = "none" THEN "None"
    ELSE "<object>"

\* Truth value of a Python value (the test `if source:`).
Truthy(x) ==
    IF x.t = "str" THEN x.v # ""
    ELSE IF x.t = "bool" THEN x.v
    ELSE IF x.t = "none" THEN FALSE
    ELSE IF x.t = "dec" THEN x.v # "0"
    ELSE IF x.t = "list" THEN Len(x.v) > 0
    ELSE DOMAIN x.v # {}

\* occurredAt values are ISO strings compared as strings; the inputs use
\* these timestamps, listed in increasing string order.
TimeOrder == <<"T1", "T2", "T3">>

Rank(s) == CHOOSE i \in 1..Len(TimeOrder) : TimeOrder[i] = s

\* a > b on two occurredAt values.
Greater(a, b) == Rank(a.v) > Rank(b.v)

---------------------------------------------------------------------------
(* _deserialize *)

RECURSIVE _deserialize(_)

\* Mutant of _deserialize: a mapping without the tag S is an error, not a
\* plain mapping to pass through.
DeserializeTaggedOnly(d) ==
    IF d.t # "dict" THEN d
    ELSE IF "S" \in DOMAIN d.v THEN d.v["S"]
    ELSE PyRaise("ValueError")

_deserialize(d) ==
    IF d.t # "dict" THEN d
    ELSE IF "S" \in DOMAIN d.v THEN d.v["S"]
    ELSE IF "N" \in DOMAIN d.v THEN Decimal(d.v["N"])
    ELSE IF "BOOL" \in DOMAIN d.v THEN d.v["BOOL"]
    ELSE IF "NULL" \in DOMAIN d.v THEN PyNone
    ELSE IF "L" \in DOMAIN d.v
    THEN LET l == d.v["L"] IN
         IF l.t # "list" THEN PyRaise("TypeError")
         ELSE LET r == [i \in 1..Len(l.v) |-> _deserialize(l.v[i])] IN
              IF \E i \in 1..Len(l.v) : r[i].t = "raise"
              THEN PyRaise("InvalidOperation")
              ELSE PyList(r)
    ELSE IF "M" \in DOMAIN d.v
    THEN LET m == d.v["M"] IN
         IF m.t # "dict" THEN PyRaise("AttributeError")
         ELSE LET r == [k \in DOMAIN m.v |-> _deserialize(m.v[k])] IN
              IF \E k \in DOMAIN m.v : r[k].t = "raise"
              THEN PyRaise("InvalidOperation")
              ELSE PyDict(r)
    ELSE LET r == [k \in DOMAIN d.v |-> _deserialize(d.v[k])] IN
         IF \E k \in DOMAIN d.v : r[k].t = "raise"
         THEN PyRaise("InvalidOperation")
         ELSE PyDict(r)

---------------------------------------------------------------------------
(* The handler's loop over the stream records: lines 18-102 *)

\* What one pass of the loop body yields: the items appended to
\* current_state_items and attribute_last_updated_items, or an exception.
Appended(cs, al) == [raised |-> FALSE, cs |-> cs, al |-> al]
Raised == [raised |-> TRUE, cs |-> <<>>, al |-> <<>>]

\* d.get(k, default) on a dict value.
Get(d, k, default) == IF k \in DOMAIN d.v THEN d.v[k] ELSE default

\* Mutant of PartitionKey: the two parts in the wrong order.
PartitionKeySwapped(resource_type, resource_id) ==
    Format(resource_id) \o "#" \o Format(resource_type)

\* pk = f"{resource_type}#{resource_id}", line 42.
PartitionKey(resource_type, resource_id) ==
    Format(resource_type) \o "#" \o Format(resource_id)

CurrentStateSK(attr) == "ATTR#" \o attr

\* Mutant of HistorySK: the attribute left out of the key.
HistorySKWithoutAttribute(attr, occurred_at) ==
    "ATTR#" \o Format(occurred_at)

HistorySK(attr, occurred_at) == "ATTR#" \o attr \o "#" \o Format(occurred_at)

\* Mutant of LatestSK: the attribute after the word LATEST.
LatestSKAttributeLast(attr) == "ATTR#LATEST#" \o attr

LatestSK(attr) == "ATTR#" \o attr \o "#LATEST"

SourceLatestSK(attr, source) == "ATTR#" \o attr \o "#LATEST#" \o Format(source)

\* The item appended to current_state_items, lines 50-57.
CurrentStateItem(pk, attr, value, occurred_at, updated_by) ==
    [PK |-> pk, SK |-> CurrentStateSK(attr), attribute |-> attr,
     value |-> value, occurredAt |-> occurred_at, updatedBy |-> updated_by]

\* The items appended to attribute_last_updated_items, lines 66-102.
AttributeItem(pk, sk, attr, value, program_year, program_tag, occurred_at, updated_by, record_type) ==
    [PK |-> pk, SK |-> sk, attribute |-> attr, value |-> value,
     programYearName |-> program_year, programTag |-> program_tag,
     occurredAt |-> occurred_at, updatedBy |-> updated_by,
     recordType |-> record_type]

\* Mutant of AttributeItems: no per-source LATEST.
AttributeItemsWithoutSource(pk, attr, value, program_year, program_tag, occurred_at, updated_by, source) ==
    << AttributeItem(pk, HistorySK(attr, occurred_at), attr, value,
                     program_year, program_tag, occurred_at, updated_by,
                     "HISTORY"),
       AttributeItem(pk, LatestSK(attr), attr, value, program_year,
                     program_tag, occurred_at, updated_by, "LATEST") >>

\* Lines 62-102 for one attribute: HISTORY, LATEST and, with a truthy
\* source, the per-source LATEST.
AttributeItems(pk, attr, value, program_year, program_tag, occurred_at, updated_by, source) ==
    << AttributeItem(pk, HistorySK(attr, occurred_at), attr, value,
                     program_year, program_tag, occurred_at, updated_by,
                     "HISTORY"),
       AttributeItem(pk, LatestSK(attr), attr, value, program_year,
                     program_tag, occurred_at, updated_by, "LATEST") >>
    \o (IF Truthy(source)
        THEN << AttributeItem(pk, SourceLatestSK(attr, source), attr, value,
                              program_year, program_tag, occurred_at,
                              updated_by, "LATEST") >>
        ELSE <<>>)

RECURSIVE Concat(_)
Concat(qq) == IF qq = <<>> THEN <<>> ELSE Head(qq) \o Concat(Tail(qq))

\* Lines 32-102 on a decoded event item.
FanOut(event_item) ==
    IF event_item.t # "dict" THEN Raised
    ELSE IF ~ ({"resourceType", "resourceId", "changes", "occurredAt"}
               \subseteq DOMAIN event_item.v)
    THEN Raised                                          \* KeyError
    ELSE
    LET resource_type == event_item.v["resourceType"]
        resource_id == event_item.v["resourceId"]
        changes == event_item.v["changes"]
        program_year == Get(event_item, "programYearName", PyNone)
        program_tag == Get(event_item, "programTag", PyStr(""))
        updated_by == Get(event_item, "updatedBy", PyStr(""))
        source == Get(event_item, "source", PyStr(""))
        occurred_at == event_item.v["occurredAt"]
        pk == PartitionKey(resource_type, resource_id)
    IN  IF changes.t # "dict" THEN Raised                \* no .items()
        ELSE IF \E a \in DOMAIN changes.v : changes.v[a].t # "dict"
        THEN Raised                                      \* no .get()
        ELSE
        LET attrs == Keys(changes)
            value(a) == Get(changes.v[a], "value", PyNone)
        IN  Appended(
              [i \in 1..Len(attrs) |->
                 CurrentStateItem(pk, attrs[i], value(attrs[i]), occurred_at,
                                  updated_by)],
              Concat([i \in 1..Len(attrs) |->
                 AttributeItems(pk, attrs[i], value(attrs[i]), program_year,
                                program_tag, occurred_at, updated_by,
                                source)]))

\* Mutant of ProcessRecord: no test of the change kind.
ProcessRecordOfAnyKind(record) ==
    LET event_item == _deserialize(record.dynamodb.NewImage) IN
    IF event_item.t = "raise" THEN Raised ELSE FanOut(event_item)

\* The loop body, lines 22-102, on one stream record.
ProcessRecord(record) ==
    IF record.eventName \notin {"INSERT", "MODIFY"} THEN Appended(<<>>, <<>>)
    ELSE LET event_item == _deserialize(record.dynamodb.NewImage) IN
         IF event_item.t = "raise" THEN Raised ELSE FanOut(event_item)

\* The loop, lines 21-102: the first exception ends it.
RECURSIVE Candidates(_)
Candidates(records) ==
    IF records = <<>> THEN Appended(<<>>, <<>>)
    ELSE LET first == ProcessRecord(Head(records)) IN
         IF first.raised THEN Raised
         ELSE LET rest == Candidates(Tail(records)) IN
              IF rest.raised THEN Raised
              ELSE Appended(first.cs \o rest.cs, first.al \o rest.al)

---------------------------------------------------------------------------
(* Deduplication: lines 128-170 *)

KeyOf(item) == <<item.PK, item.SK>>

\* A Python dict from (PK, SK) to item: the keys in insertion order and
\* the mapping.
NoItems == [keys |-> <<>>, map |-> <<>>]

\* Mutant of Values: the values in reverse insertion order.
ValuesReversed(d) ==
    [i \in 1..Len(d.keys) |-> d.map[d.keys[Len(d.keys) + 1 - i]]]

\* list(key_to_item.values())
Values(d) == [i \in 1..Len(d.keys) |-> d.map[d.keys[i]]]

\* Mutant of ReplacesKept: no comparison of occurredAt, the last one stays.
ReplacesKeptAlways(key_to_item, key, item) == TRUE

\* The test of lines 139-140.
ReplacesKept(key_to_item, key, item) ==
    \/ key \notin DOMAIN key_to_item.map
    \/ Greater(item.occurredAt, key_to_item.map[key].occurredAt)

\* Mutant of ReplacesKeptLatest: >= in place of >.
ReplacesKeptLatestOnTie(latest_records_by_key, key, item) ==
    \/ key \notin DOMAIN latest_records_by_key.map
    \/ ~ Greater(latest_records_by_key.map[key].occurredAt, item.occurredAt)

\* The test of lines 165-166.
ReplacesKeptLatest(latest_records_by_key, key, item) ==
    \/ key \notin DOMAIN latest_records_by_key.map
    \/ Greater(item.occurredAt, latest_records_by_key.map[key].occurredAt)

\* d[key] = item
Store(d, key, item) ==
    [keys |-> IF key \in DOMAIN d.map THEN d.keys ELSE Append(d.keys, key),
     map |-> (key :> item) @@ d.map]

RECURSIVE DeduplicateLoop(_, _)
DeduplicateLoop(items, key_to_item) ==
    IF items = <<>> THEN key_to_item
    ELSE LET item == Head(items)
             key == KeyOf(item)
         IN  DeduplicateLoop(Tail(items),
                 IF ReplacesKept(key_to_item, key, item)
                 THEN Store(key_to_item, key, item)
                 ELSE key_to_item)

_deduplicate_items(items) == Values(DeduplicateLoop(items, NoItems))

\* item.get("recordType", "HISTORY")
RecordType(item) ==
    IF "recordType" \in DOMAIN item THEN item.recordType ELSE "HISTORY"

RECURSIVE LatestLoop(_, _)
LatestLoop(items, state) ==
    IF items = <<>> THEN state
    ELSE LET item == Head(items)
             key == KeyOf(item)
         IN  LatestLoop(Tail(items),
                 IF RecordType(item) = "HISTORY"
                 THEN [state EXCEPT !.history_records = Append(@, item)]
                 ELSE IF RecordType(item) = "LATEST"
                 THEN IF ReplacesKeptLatest(state.latest_records_by_key, key,
                                            item)
                      THEN [state EXCEPT !.latest_records_by_key =
                                             Store(@, key, item)]
                      ELSE state
                 ELSE state)

\* Mutant of _deduplicate_latest_records_only: the HISTORY records are left
\* out of what is returned.
DeduplicatedLatestAlone(items) ==
    Values(LatestLoop(items, [history_records |-> <<>>,
                              latest_records_by_key |-> NoItems])
               .latest_records_by_key)

\* Mutant of _deduplicate_latest_records_only: HISTORY records deduplicated
\* by key like the others.
DeduplicateHistoryToo(items) == _deduplicate_items(items)

_deduplicate_latest_records_only(items) ==
    LET final == LatestLoop(items, [history_records |-> <<>>,
                                    latest_records_by_key |-> NoItems])
    IN  final.history_records \o Values(final.latest_records_by_key)

---------------------------------------------------------------------------
(* The inputs: stream records in DynamoDB JSON *)

WireS(s) == PyDict([S |-> PyStr(s)])
WireN(s) == PyDict([N |-> PyStr(s)])
WireM(f) == PyDict([M |-> PyDict(f)])

\* changes = {attr: {"value": v}} for one and for two attributes.
Change(v) == WireM([value |-> WireS(v)])
OneChange(attr, v) == (attr :> Change(v))
TwoChanges(v1, v2) == [email |-> Change(v1), phone |-> Change(v2)]

\* The event item as the event store holds it, in stream encoding.
NewImage(id, changes, occurred_at, source, program_year) ==
    PyDict([resourceType |-> WireS("patient"),
            resourceId |-> WireS(id),
            eventType |-> WireS("ETL_UPDATE"),
            changes |-> WireM(changes),
            occurredAt |-> WireS(occurred_at),
            updatedBy |-> WireS("user-1")]
           @@ (IF source = "" THEN <<>> ELSE [source |-> WireS(source)])
           @@ (IF program_year = "" THEN <<>>
               ELSE [programYearName |-> WireS(program_year),
                     programTag |-> WireS("Centene")]))

StreamRecord(event_name, new_image) ==
    [eventName |-> event_name, dynamodb |-> [NewImage |-> new_image]]

\* The image without one of its fields.
Without(image, field) ==
    PyDict([k \in DOMAIN image.v \ {field} |-> image.v[k]])

\* The image with one more field.
With(image, field, wire) == PyDict((field :> wire) @@ image.v)

EmailA1 == NewImage("P1", OneChange("email", "a"), "T1", "", "")
EmailB2 == NewImage("P1", OneChange("email", "b"), "T2", "ETL", "")
EmailC1 == NewImage("P1", OneChange("email", "c"), "T1", "", "")
EmailB1 == NewImage("P1", OneChange("email", "b"), "T1", "ETL", "2025")
Both2 == NewImage("P1", TwoChanges("a", "b"), "T2", "ETL", "2025")
Both1 == NewImage("P1", TwoChanges("c", "a"), "T1", "USER", "")
PhoneP2 == NewImage("P2", OneChange("phone", "a"), "T1", "USER", "")
NoChanges == NewImage("P1", <<>>, "T1", "ETL", "")

\* Event items that are plain values already, as put_event builds them:
\* nothing in stream encoding.
PlainChange(v) == PyDict([value |-> v])
PlainEvent(id, changes, occurred_at, more) ==
    PyDict([resourceType |-> PyStr("patient"),
            resourceId |-> PyStr(id),
            changes |-> PyDict(changes),
            occurredAt |-> PyStr(occurred_at),
            updatedBy |-> PyStr("user-1")] @@ more)

PlainEmail == PlainEvent("P1", [email |-> PlainChange(PyStr("a"))], "T1", <<>>)
PlainRich ==
    PlainEvent("P1",
               [email |-> PlainChange(PyList(<<PyStr("b"), PyNone,
                                               PyDict([S |-> PyStr("c")])>>)),
                phone |-> PlainChange(PyDict([k |-> PyBool(TRUE)]))],
               "T2",
               [source |-> PyStr("ETL"), active |-> PyBool(FALSE),
                note |-> PyNone])
PlainAttrS == PlainEvent("P1", [S |-> PlainChange(PyStr("a"))], "T1", <<>>)
PlainTopS ==
    PlainEvent("P1", [email |-> PlainChange(PyStr("a"))], "T1",
               [S |-> PyStr("x")])
PlainValueM ==
    PlainEvent("P1",
               [email |-> PlainChange(PyDict([M |-> PyDict([k |-> PyStr("a")])]))],
               "T1", <<>>)
PlainValueN ==
    PlainEvent("P2", [phone |-> PlainChange(PyDict([N |-> PyStr("1")]))],
               "T2", <<>>)
PlainValueL ==
    PlainEvent("P1",
               [email |-> PlainChange(
                    PyDict([L |-> PyList(<<PyDict([k |-> PyStr("a")])>>)]))],
               "T3", <<>>)
PlainValueNull ==
    PlainEvent("P1", [phone |-> PlainChange(PyDict("NULL" :> PyBool(FALSE)))],
               "T1", <<>>)
PlainValueBool ==
    PlainEvent("P2", [email |-> PlainChange(PyDict("BOOL" :> PyStr("yes")))],
               "T1", <<>>)

\* The stream records of the runs, by name.
Records ==
    [EmailA1 |-> StreamRecord("MODIFY", EmailA1),
     EmailB2 |-> StreamRecord("MODIFY", EmailB2),
     EmailC1 |-> StreamRecord("INSERT", EmailC1),
     EmailB1 |-> StreamRecord("MODIFY", EmailB1),
     Both2 |-> StreamRecord("INSERT", Both2),
     Both1 |-> StreamRecord("MODIFY", Both1),
     PhoneP2 |-> StreamRecord("INSERT", PhoneP2),
     NoChanges |-> StreamRecord("MODIFY", NoChanges),
     Removed |-> StreamRecord("REMOVE", EmailB2),
     Unknown |-> StreamRecord("UNKNOWN", PhoneP2),
     NoChangesField |-> StreamRecord("MODIFY", Without(EmailB2, "changes")),
     NoResourceType |-> StreamRecord("MODIFY",
                                     Without(EmailB2, "resourceType")),
     NoResourceId |-> StreamRecord("INSERT", Without(EmailB2, "resourceId")),
     NoOccurredAt |-> StreamRecord("MODIFY", Without(EmailB2, "occurredAt")),
     BadNumber |-> StreamRecord("MODIFY",
                                With(EmailB2, "version", WireN("abc"))),
     PlainEmail |-> StreamRecord("INSERT", PlainEmail),
     PlainRich |-> StreamRecord("MODIFY", PlainRich),
     PlainAttrS |-> StreamRecord("MODIFY", PlainAttrS),
     PlainTopS |-> StreamRecord("MODIFY", PlainTopS),
     PlainValueM |-> StreamRecord("MODIFY", PlainValueM),
     PlainValueN |-> StreamRecord("INSERT", PlainValueN),
     PlainValueL |-> StreamRecord("MODIFY", PlainValueL),
     PlainValueNull |-> StreamRecord("MODIFY", PlainValueNull),
     PlainValueBool |-> StreamRecord("INSERT", PlainValueBool)]

\* Records the handler accepts and can turn into an event.
ValidRecords ==
    {"EmailA1", "EmailB2", "EmailC1", "EmailB1", "Both2", "Both1", "PhoneP2",
     "NoChanges"}

\* Records of another change kind.
SkippedRecords == {"Removed", "Unknown"}

\* INSERT/MODIFY records with a required field missing or with a payload
\* that does not decode.
MalformedRecords ==
    {"NoChangesField", "NoResourceType", "NoResourceId", "NoOccurredAt",
     "BadNumber"}

RecordPool == ValidRecords \cup SkippedRecords \cup MalformedRecords

\* The records of the runs with two invocations.
ConcurrentPool == {"EmailA1", "EmailB2", "EmailC1", "Both2", "NoChangesField"}

\* The records whose image is plain already.
PlainPool ==
    {"PlainEmail", "PlainRich", "PlainAttrS", "PlainTopS", "PlainValueM",
     "PlainValueN", "PlainValueL", "PlainValueNull", "PlainValueBool"}

\* A batch names its records; the event the handler receives.
Event(batch) == [i \in 1..Len(batch) |-> Records[batch[i]]]

Batches(pool, n) == UNION { [1..k -> pool] : k \in 0..n }

---------------------------------------------------------------------------
(* The tables and the invocations *)

EmptyTable == <<>>

\* Mutant of PutItem: a row already there is kept.
PutItemIfAbsent(table, item) == table @@ (KeyOf(item) :> item)

\* Mutant of PutItem: the item put is all the table holds afterwards.
PutItemAlone(table, item) == (KeyOf(item) :> item)

\* batch.put_item(Item=item), line 125: an overwrite by (PK, SK).
PutItem(table, item) == (KeyOf(item) :> item) @@ table

\* _batch_write_table(table, items) run to its end.
RECURSIVE _batch_write_table(_, _)
_batch_write_table(table, items) ==
    IF items = <<>> THEN table
    ELSE _batch_write_table(PutItem(table, Head(items)), Tail(items))

\* Mutant of Position: the second write is not guarded.
PositionSecondUnguarded(cs, al) ==
    IF cs # <<>> THEN "write_current_state"
    ELSE "write_attribute_last_updated"

\* Mutant of Position: the attribute table is never written.
PositionWithoutAttributeTable(cs, al) ==
    IF cs # <<>> THEN "write_current_state" ELSE "done"

\* Where the invocation stands once the candidates are deduplicated, and
\* after each write: lines 107-115.
Position(cs, al) ==
    IF cs # <<>> THEN "write_current_state"
    ELSE IF al # <<>> THEN "write_attribute_last_updated"
    ELSE "done"

Idle(batch) ==
    [pc |-> "idle", batch |-> batch, cs |-> <<>>, al |-> <<>>,
     written |-> 0, concurrent |-> FALSE]

Running(i) ==
    inv[i].pc \in {"write_current_state", "write_attribute_last_updated"}

\* handler(event, context) up to the first write: the loop over the records
\* and the deduplication of both candidate lists.  An exception in the loop
\* ends the invocation ("raised") before anything is written.
Invoke(i) ==
    /\ inv[i].pc = "idle"
    /\ LET built == Candidates(Event(inv[i].batch))
           cs == IF built.raised THEN <<>> ELSE _deduplicate_items(built.cs)
           al == IF built.raised THEN <<>>
                 ELSE _deduplicate_latest_records_only(built.al)
           overlap == \E j \in DOMAIN inv : j # i /\ Running(j)
       IN  inv' = [j \in DOMAIN inv |->
                     IF j = i
                     THEN [inv[i] EXCEPT
                             !.pc = IF built.raised THEN "raised"
                                    ELSE Position(cs, al),
                             !.cs = cs, !.al = al,
                             !.concurrent = overlap /\ ~ built.raised
                                            /\ Position(cs, al) # "done"]
                     ELSE IF Running(j) /\ ~ built.raised
                             /\ Position(cs, al) # "done"
                     THEN [inv[j] EXCEPT !.concurrent = TRUE]
                     ELSE inv[j]]
    /\ started' = Append(started, i)
    /\ UNCHANGED <<current_state_table, attribute_last_updated_table>>

\* One put_item of _batch_write_table(current_state_table, ...), line 109.
WriteCurrentState(i) ==
    /\ inv[i].pc = "write_current_state"
    /\ current_state_table' = PutItem(current_state_table, Head(inv[i].cs))
    /\ inv' = [inv EXCEPT ![i].cs = Tail(@), ![i].written = @ + 1,
                          ![i].pc = Position(Tail(inv[i].cs), inv[i].al)]
    /\ UNCHANGED <<attribute_last_updated_table, started>>

\* One put_item of _batch_write_table(attribute_last_updated_table, ...),
\* line 115.
WriteAttributeLastUpdated(i) ==
    /\ inv[i].pc = "write_attribute_last_updated"
    /\ attribute_last_updated_table' =
           PutItem(attribute_last_updated_table, Head(inv[i].al))
    /\ inv' = [inv EXCEPT ![i].al = Tail(@), ![i].written = @ + 1,
                          ![i].pc = Position(<<>>, Tail(inv[i].al))]
    /\ UNCHANGED <<current_state_table, started>>

\* The invocation stops before its writes are complete: the function's
\* timeout (stack.py line 54) or a write error out of the batch writer.
Stop(i) ==
    /\ Running(i)
    /\ inv' = [inv EXCEPT ![i].pc = "stopped", ![i].cs = <<>>, ![i].al = <<>>]
    /\ UNCHANGED <<current_state_table, attribute_last_updated_table,
                   started>>

Invocation == \E i \in DOMAIN inv : Invoke(i)
CurrentStateWrite == \E i \in DOMAIN inv : WriteCurrentState(i)
AttributeLastUpdatedWrite == \E i \in DOMAIN inv : WriteAttributeLastUpdated(i)
Stopped == \E i \in DOMAIN inv : Stop(i)

Next ==
    \/ Invocation
    \/ CurrentStateWrite
    \/ AttributeLastUpdatedWrite
    \/ Stopped

\* Two invocations, each with its batch, started in any order and free to
\* interleave their writes.
Init ==
    /\ current_state_table = EmptyTable
    /\ attribute_last_updated_table = EmptyTable
    /\ inv \in [{1, 2} -> {Idle(b) : b \in Batches(ConcurrentPool, MaxConcBatch)}]
    /\ started = <<>>

Spec == Init /\ [][Next]_vars

\* One invocation on a batch of any of the records.
InitSingle ==
    /\ current_state_table = EmptyTable
    /\ attribute_last_updated_table = EmptyTable
    /\ inv \in [{1} -> {Idle(b) : b \in Batches(RecordPool, MaxBatch)}]
    /\ started = <<>>

SpecSingle == InitSingle /\ [][Next]_vars

\* One invocation on a batch of records whose images are plain already.
InitDecode ==
    /\ current_state_table = EmptyTable
    /\ attribute_last_updated_table = EmptyTable
    /\ inv \in [{1} -> {Idle(b) : b \in Batches(PlainPool, MaxBatch)}]
    /\ started = <<>>

SpecDecode == InitDecode /\ [][Next]_vars

---------------------------------------------------------------------------
(* What the properties below speak of *)

\* The candidate lists of invocation i's batch, and what goes to the writer.
Built(i) == Candidates(Event(inv[i].batch))
CurrentStateOut(batch) ==
    LET built == Candidates(Event(batch)) IN
    IF built.raised THEN <<>> ELSE _deduplicate_items(built.cs)
AttributeOut(batch) ==
    LET built == Candidates(Event(batch)) IN
    IF built.raised THEN <<>> ELSE _deduplicate_latest_records_only(built.al)

\* Invocation i has run its loop and deduplicated, with no exception.
Acted(i) == inv[i].pc \notin {"idle", "raised"}

Reverse(q) == [i \in 1..Len(q) |-> q[Len(q) + 1 - i]]

IsHistory(item) == "recordType" \in DOMAIN item /\ item.recordType = "HISTORY"
IsOverwritable(item) == ~ IsHistory(item)

Positions(items, key) == {i \in 1..Len(items) : KeyOf(items[i]) = key}
OverwritablePositions(items, key) ==
    {i \in Positions(items, key) : IsOverwritable(items[i])}
Last(S) == CHOOSE i \in S : \A j \in S : j <= i
First(S) == CHOOSE i \in S : \A j \in S : i <= j

\* The table a sequence of overwrites by key leaves behind, from empty.
Rows(items) ==
    [key \in {KeyOf(items[i]) : i \in 1..Len(items)} |->
        items[Last(Positions(items, key))]]

\* The table with the rows of `over` laid over it.
Over(over, table) ==
    [key \in DOMAIN over \cup DOMAIN table |->
        IF key \in DOMAIN over THEN over[key] ELSE table[key]]

\* Both invocations ran to completion, one after the other.
BothDoneInTurn ==
    /\ DOMAIN inv = {1, 2}
    /\ \A i \in {1, 2} : inv[i].pc = "done" /\ ~ inv[i].concurrent
    /\ Len(started) = 2

\* In `out`, every overwritable survivor has the greatest occurredAt among
\* the candidates of `items` with its key.
SurvivorsGreatest(items, out) ==
    \A i \in 1..Len(items) :
        IsOverwritable(items[i]) =>
            \E j \in 1..Len(out) :
                /\ KeyOf(out[j]) = KeyOf(items[i])
                /\ IsOverwritable(out[j])
                /\ ~ Greater(items[i].occurredAt, out[j].occurredAt)

\* The overwritable survivors of two outputs carry the same occurredAt.
SameSurvivorTimes(out1, out2) ==
    \A j \in 1..Len(out1) :
        IsOverwritable(out1[j]) =>
            \E k \in 1..Len(out2) :
                /\ KeyOf(out2[k]) = KeyOf(out1[j])
                /\ IsOverwritable(out2[k])
                /\ out2[k].occurredAt = out1[j].occurredAt

HistoryOf(items) == SelectSeq(items, IsHistory)

\* Two candidates of `items` share a key and differ in occurredAt.
HasOlderAndNewer(items) ==
    \E i, j \in 1..Len(items) :
        /\ IsOverwritable(items[i]) /\ IsOverwritable(items[j])
        /\ KeyOf(items[i]) = KeyOf(items[j])
        /\ Greater(items[i].occurredAt, items[j].occurredAt)

\* Two different candidates of `items` share a key and its greatest
\* occurredAt.
HasTie(items) ==
    \E i, j \in 1..Len(items) :
        /\ i < j
        /\ IsOverwritable(items[i]) /\ IsOverwritable(items[j])
        /\ KeyOf(items[i]) = KeyOf(items[j])
        /\ items[i].occurredAt = items[j].occurredAt
        /\ items[i] # items[j]
        /\ \A k \in OverwritablePositions(items, KeyOf(items[i])) :
               ~ Greater(items[k].occurredAt, items[i].occurredAt)

---------------------------------------------------------------------------
(* C1 *)

\* The tables that processing batch `first` and then batch `second` to
\* completion leaves, from empty tables.
InTurn(first, second) ==
    [cs |-> _batch_write_table(
                _batch_write_table(EmptyTable, CurrentStateOut(first)),
                CurrentStateOut(second)),
     al |-> _batch_write_table(
                _batch_write_table(EmptyTable, AttributeOut(first)),
                AttributeOut(second))]

\* C1 as claimed: after two batches were processed to completion one after
\* the other, both tables hold what processing them in the opposite order
\* leaves.
C1_OrderOfBatchesIrrelevant ==
    BothDoneInTurn =>
        LET other == InTurn(inv[started[2]].batch, inv[started[1]].batch)
        IN  /\ current_state_table = other.cs
            /\ attribute_last_updated_table = other.al

\* The row `table` holds under `key` is the row `mine` holds there, where
\* the other order would leave the row of `theirs`.
LastWriterDecides(key, table, other, mine, theirs) ==
    /\ key \in DOMAIN mine /\ key \in DOMAIN theirs
    /\ table[key] = mine[key]
    /\ other[key] = theirs[key]

\* C1 amended: after two batches were processed to completion one after the
\* other, both tables hold the same keys as in the opposite order, and the
\* same row under every key except those that both batches write: there
\* each order leaves the row of the batch that was processed last.
C1_OrdersAgreeUpToLastWriter ==
    BothDoneInTurn =>
        LET b1 == inv[started[1]].batch
            b2 == inv[started[2]].batch
            other == InTurn(b2, b1)
        IN  /\ DOMAIN current_state_table = DOMAIN other.cs
            /\ DOMAIN attribute_last_updated_table = DOMAIN other.al
            /\ \A key \in DOMAIN current_state_table :
                   \/ current_state_table[key] = other.cs[key]
                   \/ LastWriterDecides(key, current_state_table, other.cs,
                                        Rows(CurrentStateOut(b2)),
                                        Rows(CurrentStateOut(b1)))
            /\ \A key \in DOMAIN attribute_last_updated_table :
                   \/ attribute_last_updated_table[key] = other.al[key]
                   \/ LastWriterDecides(key, attribute_last_updated_table,
                                        other.al, Rows(AttributeOut(b2)),
                                        Rows(AttributeOut(b1)))

\* Two batches that update the same attribute at different times were
\* processed one after the other, the older one last.
C1_Witness ==
    /\ BothDoneInTurn
    /\ \E key \in DOMAIN current_state_table :
           LET r1 == Rows(CurrentStateOut(inv[started[1]].batch))
               r2 == Rows(CurrentStateOut(inv[started[2]].batch))
           IN  /\ key \in DOMAIN r1 /\ key \in DOMAIN r2
               /\ Greater(r1[key].occurredAt, r2[key].occurredAt)

---------------------------------------------------------------------------
(* C2 *)

\* C2: of the overwritable candidates of a batch that share (PK, SK), the
\* one deduplication keeps has the greatest occurredAt, so of two with
\* different occurredAt never the older one, also with the candidates in
\* the opposite order; and every HISTORY candidate is kept.
C2_NewerSurvivesInAnyOrder ==
    \A i \in DOMAIN inv :
        Acted(i) =>
            LET built == Built(i)
                cs == built.cs
                al == built.al
                cs_out == _deduplicate_items(cs)
                cs_back == _deduplicate_items(Reverse(cs))
                al_out == _deduplicate_latest_records_only(al)
                al_back == _deduplicate_latest_records_only(Reverse(al))
            IN  /\ SurvivorsGreatest(cs, cs_out)
                /\ SurvivorsGreatest(cs, cs_back)
                /\ SameSurvivorTimes(cs_out, cs_back)
                /\ SurvivorsGreatest(al, al_out)
                /\ SurvivorsGreatest(al, al_back)
                /\ SameSurvivorTimes(al_out, al_back)
                /\ HistoryOf(al_out) = HistoryOf(al)
                /\ Len(HistoryOf(al_back)) = Len(HistoryOf(al))

\* An invocation deduplicated a batch in which the newer of two updates of
\* one attribute comes first.
C2_Witness ==
    \E i \in DOMAIN inv :
        /\ Acted(i)
        /\ LET al == Built(i).al IN
           /\ HasOlderAndNewer(Built(i).cs)
           /\ HasOlderAndNewer(al)
           /\ \E a, b \in 1..Len(al) :
                  /\ a < b
                  /\ IsOverwritable(al[a]) /\ IsOverwritable(al[b])
                  /\ KeyOf(al[a]) = KeyOf(al[b])
                  /\ Greater(al[a].occurredAt, al[b].occurredAt)

---------------------------------------------------------------------------
(* C3 *)

\* The survivor of every key whose greatest occurredAt is shared by several
\* overwritable candidates is the candidate at position Pick(those).
TieGoesTo(items, out, Pick(_)) ==
    \A i \in 1..Len(items) :
        IsOverwritable(items[i]) =>
            LET same == OverwritablePositions(items, KeyOf(items[i]))
                tied == {k \in same :
                           \A m \in same :
                               ~ Greater(items[m].occurredAt,
                                         items[k].occurredAt)}
            IN  \E j \in 1..Len(out) :
                    /\ KeyOf(out[j]) = KeyOf(items[i])
                    /\ IsOverwritable(out[j])
                    /\ out[j] = items[Pick(tied)]

\* C3 as claimed: among overwritable candidates that share (PK, SK) and the
\* same occurredAt, deduplication keeps the one met last.
C3_TieKeepsLast ==
    \A i \in DOMAIN inv :
        Acted(i) =>
            LET built == Built(i) IN
            /\ TieGoesTo(built.cs, _deduplicate_items(built.cs), Last)
            /\ TieGoesTo(built.al,
                         _deduplicate_latest_records_only(built.al), Last)

\* C3 amended: among overwritable candidates that share (PK, SK) and the
\* same occurredAt, deduplication keeps the one met first.
C3_TieKeepsFirst ==
    \A i \in DOMAIN inv :
        Acted(i) =>
            LET built == Built(i) IN
            /\ TieGoesTo(built.cs, _deduplicate_items(built.cs), First)
            /\ TieGoesTo(built.al,
                         _deduplicate_latest_records_only(built.al), First)

\* An invocation deduplicated a batch with two different updates of one
\* attribute at the same occurredAt.
C3_Witness ==
    \E i \in DOMAIN inv :
        Acted(i) /\ LET built == Built(i) IN HasTie(built.cs) /\ HasTie(built.al)

---------------------------------------------------------------------------
(* C4 *)

\* q is what is left of `full` after some of its first elements are gone.
IsSuffix(q, full) ==
    /\ Len(q) <= Len(full)
    /\ q = SubSeq(full, Len(full) - Len(q) + 1, Len(full))

DistinctOverwritableKeys(out) ==
    \A j, k \in 1..Len(out) :
        (j # k /\ IsOverwritable(out[j]) /\ IsOverwritable(out[k]))
            => KeyOf(out[j]) # KeyOf(out[k])

\* C4: what deduplication hands to the writer has at most one overwritable
\* record per (PK, SK) and every HISTORY candidate, unmodified; as many
\* HISTORY records leave as entered, and the writes still pending are the
\* rest of that output.
C4_OnePerKeyAndAllHistory ==
    \A i \in DOMAIN inv :
        Acted(i) =>
            LET built == Built(i)
                cs == _deduplicate_items(built.cs)
                al == _deduplicate_latest_records_only(built.al)
            IN  /\ DistinctOverwritableKeys(cs)
                /\ DistinctOverwritableKeys(al)
                /\ HistoryOf(al) = HistoryOf(built.al)
                /\ Len(HistoryOf(al)) = Len(HistoryOf(built.al))
                /\ IsSuffix(inv[i].cs, cs) /\ IsSuffix(inv[i].al, al)

\* An invocation deduplicated a batch in which one attribute is updated
\* more than once, twice at the same occurredAt.
C4_Witness ==
    \E i \in DOMAIN inv :
        /\ Acted(i)
        /\ LET built == Built(i) IN
           /\ Len(_deduplicate_items(built.cs)) < Len(built.cs)
           /\ \E a, b \in 1..Len(built.al) :
                  /\ a < b
                  /\ IsHistory(built.al[a]) /\ IsHistory(built.al[b])
                  /\ KeyOf(built.al[a]) = KeyOf(built.al[b])

---------------------------------------------------------------------------
(* C5 *)

\* An INSERT/MODIFY record that cannot be turned into an event: its payload
\* does not decode, or a required field is missing.
Accepted(record) == record.eventName \in {"INSERT", "MODIFY"}
Invalid(record) ==
    /\ Accepted(record)
    /\ LET image == record.dynamodb.NewImage IN
       \/ \E f \in {"resourceType", "resourceId", "changes", "occurredAt"} :
              f \notin DOMAIN image.v
       \/ \E f \in DOMAIN image.v :
              /\ "N" \in DOMAIN image.v[f].v
              /\ image.v[f].v["N"].v \notin NumericStrings

\* The batch without its invalid records.
ValidPart(batch) == SelectSeq(batch, LAMBDA name : ~ Invalid(Records[name]))

\* C5 as claimed: an invocation whose batch holds invalid records skips
\* them and does not fail, and what it writes is what the other records of
\* the batch yield.
C5_InvalidRecordSkipped ==
    \A i \in DOMAIN inv :
        (inv[i].pc # "idle"
         /\ \E k \in 1..Len(inv[i].batch) : Invalid(Records[inv[i].batch[k]]))
        => /\ inv[i].pc # "raised"
           /\ inv[i].pc = "done" =>
                  /\ DOMAIN Rows(CurrentStateOut(ValidPart(inv[i].batch)))
                         \subseteq DOMAIN current_state_table
                  /\ DOMAIN Rows(AttributeOut(ValidPart(inv[i].batch)))
                         \subseteq DOMAIN attribute_last_updated_table

---------------------------------------------------------------------------
(* C6 *)

\* The attributes an event changes, its source and its program year, read
\* off the stream record.
Image(record) == record.dynamodb.NewImage.v
Plain(wire) == wire.v["S"]
ChangedAttributes(record) == DOMAIN Image(record)["changes"].v["M"].v
HasSource(record) ==
    "source" \in DOMAIN Image(record) /\ Plain(Image(record)["source"]).v # ""
HasProgramYear(record) == "programYearName" \in DOMAIN Image(record)
WellFormed(record) == Accepted(record) /\ ~ Invalid(record)

HistoryKeys(table) == {key \in DOMAIN table : IsHistory(table[key])}

\* Both invocations were handed the same batch and ran to completion.
SameBatchBothDone ==
    /\ DOMAIN inv = {1, 2}
    /\ inv[1].batch = inv[2].batch
    /\ inv[1].pc = "done" /\ inv[2].pc = "done"

\* C6: when two invocations process the same batch, one after the other or
\* with their writes interleaved, both tables end as one processing of the
\* batch leaves them; for a batch of one record there is one HISTORY row
\* per changed attribute.
C6_DuplicateDeliveryWritesOnce ==
    SameBatchBothDone =>
        LET batch == inv[1].batch IN
        /\ current_state_table = Rows(CurrentStateOut(batch))
        /\ attribute_last_updated_table = Rows(AttributeOut(batch))
        /\ (Len(batch) = 1 /\ WellFormed(Records[batch[1]])) =>
               Cardinality(HistoryKeys(attribute_last_updated_table))
                   = Cardinality(ChangedAttributes(Records[batch[1]]))

\* Two invocations wrote the same record of two changed attributes, their
\* writes interleaved.
C6_Witness ==
    /\ SameBatchBothDone
    /\ Len(inv[1].batch) = 1
    /\ Cardinality(ChangedAttributes(Records[inv[1].batch[1]])) = 2
    /\ inv[1].concurrent /\ inv[2].concurrent
    /\ inv[1].written > 0 /\ inv[2].written > 0

---------------------------------------------------------------------------
(* C7 *)

\* Invocation a stopped part-way, then invocation b processed the same
\* batch to completion.
StoppedThenRerun(a, b) ==
    /\ a # b
    /\ started = <<a, b>>
    /\ inv[a].pc = "stopped" /\ inv[b].pc = "done"
    /\ ~ inv[a].concurrent /\ ~ inv[b].concurrent
    /\ inv[a].batch = inv[b].batch

\* C7: when an invocation stops after any part of its writes and the same
\* batch is then processed to completion, both tables end as one
\* uninterrupted processing of the batch leaves them.
C7_RerunRepairsStoppedInvocation ==
    \A a, b \in DOMAIN inv :
        StoppedThenRerun(a, b) =>
            /\ current_state_table = Rows(CurrentStateOut(inv[b].batch))
            /\ attribute_last_updated_table = Rows(AttributeOut(inv[b].batch))

\* An invocation stopped between its writes to the two tables, or within
\* them, and the batch was processed again.
C7_Witness ==
    \E a, b \in DOMAIN inv :
        /\ StoppedThenRerun(a, b)
        /\ inv[a].written > 0
        /\ inv[a].written < inv[b].written

---------------------------------------------------------------------------
(* C8 *)

\* C8 as claimed: no step changes the value that a HISTORY row of the
\* attribute table holds.
C8_HistoryRowNeverChanges ==
    [][\A key \in HistoryKeys(attribute_last_updated_table) :
          /\ key \in DOMAIN attribute_last_updated_table'
          /\ attribute_last_updated_table'[key].value
                 = attribute_last_updated_table[key].value]_vars

---------------------------------------------------------------------------
(* C9 *)

\* The well-formed records of the batches that invocations have taken up.
TakenUpNames ==
    UNION {{inv[i].batch[k] : k \in 1..Len(inv[i].batch)} :
              i \in {j \in DOMAIN inv : inv[j].pc # "idle"}}
TakenUp == {Records[name] : name \in {n \in TakenUpNames : WellFormed(Records[n])}}

CandidateCount(record) ==
    LET out == ProcessRecord(record) IN Len(out.cs) + Len(out.al)

SortKeys(items) == {items[i].SK : i \in 1..Len(items)}

---------------------------------------------------------------------------
(* C10 *)

AllCandidates(record) ==
    LET out == ProcessRecord(record) IN
    {out.cs[n] : n \in 1..Len(out.cs)} \cup {out.al[n] : n \in 1..Len(out.al)}

EventKey(record) ==
    Plain(Image(record)["resourceType"]).v \o "#"
        \o Plain(Image(record)["resourceId"]).v

\* The item has the field and in it the event's value.
Carries(item, record, field) ==
    /\ field \in DOMAIN item
    /\ item[field] = Plain(Image(record)[field])

ItemsComeFromEvents ==
    LET emitted == UNION {AllCandidates(r) : r \in TakenUp}
        rows(table) == {table[key] : key \in DOMAIN table}
        pending(q) == {q[n] : n \in 1..Len(q)}
    IN  /\ rows(current_state_table) \subseteq emitted
        /\ rows(attribute_last_updated_table) \subseteq emitted
        /\ \A i \in DOMAIN inv :
               pending(inv[i].cs) \cup pending(inv[i].al) \subseteq emitted

---------------------------------------------------------------------------
(* C11 *)

\* The batch without the records of a kind other than INSERT and MODIFY.
AcceptedPart(batch) == SelectSeq(batch, LAMBDA name : Accepted(Records[name]))

NothingWritten ==
    /\ current_state_table = EmptyTable
    /\ attribute_last_updated_table = EmptyTable

\* C11: the loop yields for a batch what it yields for the batch's INSERT
\* and MODIFY records alone, error or candidates; the other records raise
\* nothing and add nothing, and a batch of only such records ends the
\* invocation with no write.
C11_OtherKindsSkipped ==
    \A i \in DOMAIN inv :
        inv[i].pc # "idle" =>
            LET accepted == AcceptedPart(inv[i].batch) IN
            /\ Built(i) = Candidates(Event(accepted))
            /\ IsSuffix(inv[i].cs, CurrentStateOut(accepted))
            /\ IsSuffix(inv[i].al, AttributeOut(accepted))
            /\ accepted = <<>> =>
                   /\ inv[i].pc = "done" /\ inv[i].written = 0
                   /\ DOMAIN inv = {1} => NothingWritten

\* An invocation took up a REMOVE record followed by a MODIFY record and
\* wrote; another took up a batch of skipped records only.
C11_Witness ==
    \E i \in DOMAIN inv :
        /\ inv[i].pc = "done" /\ inv[i].written > 0
        /\ Len(inv[i].batch) = 2
        /\ ~ Accepted(Records[inv[i].batch[1]])
        /\ Records[inv[i].batch[1]].eventName = "REMOVE"
        /\ Accepted(Records[inv[i].batch[2]])

---------------------------------------------------------------------------
(* C12 *)

\* The record is accepted and well formed, and its changes are empty.
HasNoChanges(record) ==
    WellFormed(record) /\ ChangedAttributes(record) = {}

\* C12: an event with empty changes yields no candidate and no error; an
\* invocation whose batch yields no candidate for a table never enters the
\* write of that table, and with no candidate at all it ends at once, no
\* item written and the tables as they were.
C12_NoCandidatesNoWrite ==
    /\ \A name \in TakenUpNames :
           HasNoChanges(Records[name]) =>
               ProcessRecord(Records[name]) = Appended(<<>>, <<>>)
    /\ \A i \in DOMAIN inv :
           (inv[i].pc # "idle" /\ ~ Built(i).raised) =>
               LET built == Built(i) IN
               /\ built.cs = <<>> => inv[i].pc # "write_current_state"
               /\ built.al = <<>> =>
                      inv[i].pc # "write_attribute_last_updated"
               /\ (built.cs = <<>> /\ built.al = <<>>) =>
                      /\ inv[i].pc = "done" /\ inv[i].written = 0
                      /\ DOMAIN inv = {1} => NothingWritten

\* An invocation took up a batch whose only accepted record has empty
\* changes.
C12_Witness ==
    \E i \in DOMAIN inv :
        /\ inv[i].pc = "done"
        /\ AcceptedPart(inv[i].batch) # <<>>
        /\ \A k \in 1..Len(inv[i].batch) :
               Accepted(Records[inv[i].batch[k]]) =>
                   HasNoChanges(Records[inv[i].batch[k]])

---------------------------------------------------------------------------
(* C13 *)

IdempotentOn(items) ==
    LET once == _deduplicate_items(items) IN _deduplicate_items(once) = once

LatestIdempotentOn(items) ==
    LET once == _deduplicate_latest_records_only(items)
    IN  _deduplicate_latest_records_only(once) = once

\* C13: each deduplication function applied to its own output returns that
\* output, the same records in the same order; checked on the candidates of
\* every batch, in both orders, and of each of the two lists given to either
\* function.
C13_DeduplicationIdempotent ==
    \A i \in DOMAIN inv :
        Acted(i) =>
            LET built == Built(i) IN
            \A items \in {built.cs, built.al, Reverse(built.cs),
                          Reverse(built.al)} :
                IdempotentOn(items) /\ LatestIdempotentOn(items)

\* Both functions dropped a candidate and kept two keys or more, and the
\* invocation wrote what they returned.
C13_Witness ==
    \E i \in DOMAIN inv :
        /\ inv[i].pc = "done"
        /\ LET built == Built(i)
               cs == _deduplicate_items(built.cs)
               al == _deduplicate_latest_records_only(built.al)
           IN  /\ Len(cs) < Len(built.cs) /\ Len(cs) >= 2
               /\ Len(al) < Len(built.al)
               /\ Cardinality({k \in 1..Len(al) : IsOverwritable(al[k])}) >= 2

---------------------------------------------------------------------------
(* C14 *)

KeysKept(table, after) == DOMAIN table \subseteq DOMAIN after

\* C14: no step of any invocation, finished, failed or stopped half way,
\* takes a (PK, SK) key out of either table.
C14_NoKeyLost ==
    [][/\ KeysKept(current_state_table, current_state_table')
       /\ KeysKept(attribute_last_updated_table,
                   attribute_last_updated_table')]_vars

\* One invocation was stopped after it wrote some of its items, the other
\* one wrote all of its own, and the rows of both are in the tables.
C14_Witness ==
    \E i, j \in DOMAIN inv :
        /\ inv[i].pc = "stopped" /\ inv[i].written > 0
        /\ inv[j].pc = "done" /\ inv[j].written > 0
        /\ Cardinality(DOMAIN current_state_table) >= 1
        /\ Cardinality(DOMAIN attribute_last_updated_table) >= 3

---------------------------------------------------------------------------
(* C15 *)

DistinctKeys(items) ==
    \A m, n \in 1..Len(items) : KeyOf(items[m]) = KeyOf(items[n]) => m = n

\* C15 as claimed: the list an invocation hands to the batch writer for the
\* attribute table holds no two items with the same (PK, SK).
C15_AttributeBatchKeysDistinct ==
    \A i \in DOMAIN inv : Acted(i) => DistinctKeys(AttributeOut(inv[i].batch))

---------------------------------------------------------------------------
(* C16 *)

\* What a row says of its attribute.
Held(row) == [value |-> row.value, occurredAt |-> row.occurredAt]

\* Every current-state row has a LATEST row of its resource and attribute
\* that holds the same value and occurredAt, and every such LATEST row has
\* its current-state row.
RowsAgree ==
    /\ \A key \in DOMAIN current_state_table :
           LET row == current_state_table[key]
               latest == <<key[1], "ATTR#" \o row.attribute \o "#LATEST">>
           IN  /\ key[2] = "ATTR#" \o row.attribute
               /\ latest \in DOMAIN attribute_last_updated_table
               /\ Held(attribute_last_updated_table[latest]) = Held(row)
    /\ \A key \in DOMAIN attribute_last_updated_table :
           LET row == attribute_last_updated_table[key] IN
           key[2] = "ATTR#" \o row.attribute \o "#LATEST" =>
               <<key[1], "ATTR#" \o row.attribute>>
                   \in DOMAIN current_state_table

\* Every invocation started so far ran alone and came to its end, done or
\* raised.
AllInTurn ==
    \A i \in DOMAIN inv :
        inv[i].pc \in {"idle", "done", "raised"} /\ ~ inv[i].concurrent

\* C16: when the invocations so far ran one at a time, each to its end,
\* the current-state row and the LATEST row of every resource and attribute
\* hold the same value and the same occurredAt.
C16_RowsAgreeInTurn == AllInTurn => RowsAgree

\* Two invocations ran in turn and wrote different values of the same
\* attribute of the same resource.
C16_Witness ==
    /\ BothDoneInTurn
    /\ \A i \in DOMAIN inv : inv[i].written > 0
    /\ \E key \in DOMAIN current_state_table :
           \E r1, r2 \in TakenUp :
               LET a == current_state_table[key].attribute IN
               /\ EventKey(r1) = key[1] /\ EventKey(r2) = key[1]
               /\ a \in ChangedAttributes(r1) \cap ChangedAttributes(r2)
               /\ Image(r1)["changes"] # Image(r2)["changes"]

---------------------------------------------------------------------------
(* C17 *)

\* Both invocations are done and their writes overlapped.
BothDoneOverlapped ==
    /\ DOMAIN inv = {1, 2}
    /\ \A i \in {1, 2} : inv[i].pc = "done" /\ inv[i].concurrent

\* C17 as claimed: once two invocations whose writes interleaved are both
\* done, the current-state row and the LATEST row of every attribute hold
\* the same value and occurredAt.
C17_RowsAgreeAfterOverlap == BothDoneOverlapped => RowsAgree

---------------------------------------------------------------------------
(* C18 *)

KeySet(items) == {KeyOf(items[n]) : n \in 1..Len(items)}

\* C18: for the two candidate lists the handler builds from a batch, the
\* (PK, SK) keys of what each deduplication function returns are the keys of
\* what it was given, none lost and none added.
C18_DeduplicationKeepsKeys ==
    \A i \in DOMAIN inv :
        Acted(i) =>
            LET built == Built(i) IN
            /\ KeySet(_deduplicate_items(built.cs)) = KeySet(built.cs)
            /\ KeySet(_deduplicate_latest_records_only(built.al))
                   = KeySet(built.al)
            /\ inv[i].pc = "done" =>
                   /\ KeySet(built.cs) \subseteq DOMAIN current_state_table
                   /\ KeySet(built.al)
                          \subseteq DOMAIN attribute_last_updated_table

\* An invocation wrote the survivors of lists from which both functions
\* dropped a candidate, the lists holding several keys.
C18_Witness ==
    \E i \in DOMAIN inv :
        /\ inv[i].pc = "done"
        /\ LET built == Built(i) IN
           /\ Len(_deduplicate_items(built.cs)) < Len(built.cs)
           /\ Len(_deduplicate_latest_records_only(built.al)) < Len(built.al)
           /\ Cardinality(KeySet(built.cs)) >= 2
           /\ Cardinality(KeySet(built.al)) >= 5

---------------------------------------------------------------------------
(* C19 *)

\* The value is built from strings, booleans, None, lists and mappings.
RECURSIVE IsPlain(_)
IsPlain(v) ==
    \/ v.t \in {"str", "bool", "none"}
    \/ v.t = "list" /\ \A n \in 1..Len(v.v) : IsPlain(v.v[n])
    \/ v.t = "dict" /\ \A k \in DOMAIN v.v : IsPlain(v.v[k])

TagKeys == {"S", "N", "BOOL", "NULL", "L", "M"}

\* The value is a mapping with a key named like a type tag, or holds one
\* as the value of a key, at any depth of mappings in mappings.
RECURSIVE TaggedInMappings(_)
TaggedInMappings(v) ==
    /\ v.t = "dict"
    /\ \/ DOMAIN v.v \cap TagKeys # {}
       \/ \E k \in DOMAIN v.v : TaggedInMappings(v.v[k])

\* The value and every value nested in it.
RECURSIVE Nodes(_)
Nodes(v) ==
    {v} \cup (IF v.t = "list" THEN UNION {Nodes(v.v[n]) : n \in 1..Len(v.v)}
              ELSE IF v.t = "dict" THEN UNION {Nodes(v.v[k]) : k \in DOMAIN v.v}
              ELSE {})

\* The values the decoder is applied to: the images of the records taken
\* up, and every value nested in them.
PlainNodes ==
    {v \in UNION {Nodes(Records[name].dynamodb.NewImage) :
                     name \in TakenUpNames} : IsPlain(v)}

\* C19 as claimed: _deserialize returns every plain value unchanged,
\* whatever the key names of its mappings.
C19_PlainUnchanged == \A v \in PlainNodes : _deserialize(v) = v

\* C19 amended: _deserialize returns a plain value unchanged when no
\* mapping in it, reached from the top through mapping values, has a key S,
\* N, BOOL, NULL, L or M (mappings inside lists are not looked at); with
\* such a key the mapping is decoded as a tagged node and what is returned
\* differs from the value.
C19_PlainUnchangedWithoutTagKeys ==
    \A v \in PlainNodes :
        IF TaggedInMappings(v) THEN _deserialize(v) # v
        ELSE _deserialize(v) = v

\* An invocation decoded and wrote an event item that is plain, holds a
\* list, a boolean, None and nested mappings and no tag key outside a
\* list, and one with a tag key as the name of a changed attribute.
C19_Witness ==
    \E i \in DOMAIN inv :
        /\ inv[i].pc = "done" /\ inv[i].written > 0
        /\ \E k \in 1..Len(inv[i].batch) :
               LET image == Records[inv[i].batch[k]].dynamodb.NewImage IN
               /\ IsPlain(image) /\ ~ TaggedInMappings(image)
               /\ \A t \in {"str", "bool", "none", "list", "dict"} :
                      \E v \in Nodes(image) : v.t = t
               /\ \E v \in Nodes(image) : TaggedInMappings(v)
        /\ \E k \in 1..Len(inv[i].batch) :
               TaggedInMappings(Records[inv[i].batch[k]].dynamodb.NewImage)

=============================================================================
